---- MODULE Spec2Model ----
(***************************************************************************)
(* The x402 payment gatekeeper of packages/x402-payment-sdk: requirement   *)
(* construction, proof verification and the settlement state machine       *)
(* (synchronous, and deferred with bounded retry), as composed by the HTTP *)
(* plugin (createPaymentPlugin / ensurePayment / settle), by the paid tool *)
(* wrapper (createPaidToolMethod / cbWithPayment), and as a caller of its  *)
(* own uses the PaymentProcessor directly.                                 *)
(*                                                                         *)
(* JavaScript runs each callback to its next await without interruption,   *)
(* so one action is the code between two suspension points: a facilitator  *)
(* call in flight, a retry timer or the handler's own work separate them.  *)
(***************************************************************************)
EXTENDS Integers, Sequences, FiniteSets, TLC

\* ---------------------------------------------------------------- bounds
\* Largest maxRetries a configuration sets explicitly.
MaxRetriesCfg == 2
\* How many times a handler invokes the settle closure of one admission.
MaxSettleInvocations == 2

\* ---------------------------------------------------- program constants
X402_VERSION == 1
DefaultMaxRetries == 3
DefaultRetryDelay == 1000
ErrorStatusFloor == 400
PaymentRequiredStatus == 402
ConfigErrorStatus == 500

\* JavaScript's undefined, for the string-valued fields that may lack a value.
Undefined == "undefined"

\* The requests of one run; `active` holds those that arrive.
Reqs == {1, 2}

\* ------------------------------------------------------- library values
\* x402/types SupportedEVMNetworks, as far as the SDK's typed networks go.
SupportedEVMNetworks == {"base-sepolia", "base"}

\* viem isAddress: 0x and forty hex digits; the empty string is no address.
IsAddress(a) == a \in {"0xpayee", "0xusdc"}

\* viem checksumAddress: the same address with EIP-55 letter case.
ChecksumAddress(a) ==
    CASE a = "0xpayee" -> "0xPayee"
      [] a = "0xusdc" -> "0xUsdc"
      [] OTHER -> a

\* x402/shared moneySchema and the USDC decimals: a USD price as an atomic
\* integer string; a price that does not parse has no amount.
AtomicAmountOf(price) ==
    CASE price = "$0.001" -> "1000"
      [] price = "$0.01" -> "10000"
      [] OTHER -> Undefined

\* x402/shared getDefaultAsset: the networks the library holds a USDC
\* configuration for. They are more than the EVM ones ("solana" stands for
\* those); on any other network the lookup raises.
HasDefaultAsset(network) == network \in {"base-sepolia", "base", "solana"}

\* x402/shared processPriceToAtomicAmount: the price is parsed first and a
\* malformed one is answered with an error; then the default asset of the
\* network is looked up.
ProcessPriceToAtomicAmount(price, network) ==
    IF AtomicAmountOf(price) = Undefined
    THEN [error |-> "Invalid price"]
    ELSE IF ~HasDefaultAsset(network)
    THEN [raise |-> "Unsupported network"]
    ELSE [maxAmountRequired |-> AtomicAmountOf(price), asset |-> "0xusdc"]

\* JSON.stringify of an object whose values are strings: a key whose value is
\* undefined is left out.
JsonStringify(obj) ==
    [k \in {f \in DOMAIN obj : obj[f] # Undefined} |-> obj[k]]

\* safeBase64Encode of a JSON text, and the reader's JSON.parse(atob(...)).
SafeBase64Encode(json) == [b64 |-> json]
DecodeHeader(h) == h.b64

\* A header a response does not carry.
NoHeader == [absent |-> "true"]

\* The Headers object folds names to lower case: X-PAYMENT-RESPONSE written
\* by the plugin and X-Payment-Response written by the processor are one header.
HdrStatus == "x-payment-status"
HdrResponse == "x-payment-response"
HdrError == "x-payment-error"
HeaderNames == {HdrStatus, HdrResponse, HdrError}
NoHeaders == [n \in HeaderNames |-> NoHeader]

\* ------------------------------------------------------- pure functions
\* (variant) A builder that always names the request's URL as the resource.
ResourceOfRequestOnly(resource, url) == url

\* `resource || request.url`: the explicit resource, else the request's URL.
ResourceOf(resource, url) == IF resource # Undefined THEN resource ELSE url

\* PaymentProcessor.createPaymentRequirements. The price is converted before
\* the network is tested, and an exception of the conversion is not caught.
\* The requirement literal calls getAddress on the configured recipient,
\* which raises on a malformed one.
CreatePaymentRequirements(pconf, url, price, resource) ==
    LET atomic == ProcessPriceToAtomicAmount(price, pconf.network) IN
    IF "error" \in DOMAIN atomic
    THEN [kind |-> "failure", code |-> "PRICE_PROCESSING_ERROR",
          message |-> atomic.error]
    ELSE IF "raise" \in DOMAIN atomic
    THEN [kind |-> "raise", code |-> "Error", message |-> atomic.raise]
    ELSE IF pconf.network \notin SupportedEVMNetworks
    THEN [kind |-> "failure", code |-> "UNSUPPORTED_NETWORK",
          message |-> "Unsupported network"]
    ELSE IF ~IsAddress(pconf.recipient)
    THEN [kind |-> "raise", code |-> "InvalidAddressError",
          message |-> "Address is invalid"]
    ELSE [kind |-> "requirement",
          scheme |-> "exact",
          network |-> pconf.network,
          maxAmountRequired |-> atomic.maxAmountRequired,
          resource |-> ResourceOf(resource, url),
          payTo |-> ChecksumAddress(pconf.recipient),
          asset |-> ChecksumAddress(atomic.asset)]

\* exact.evm.decodePayment, then x402Version := X402_VERSION. A token that is
\* not a base64 JSON payload raises.
Decodable(token) == token \in {"tok-base", "tok-base-b", "tok-sepolia"}

\* (variant) A decoder that takes every token for a payload.
DecodesAnything(token, requirement) ==
    [kind |-> "call", code |-> "", message |-> "", payer |-> Undefined,
     requirements |-> <<requirement>>]
DecodePayment(token) ==
    [x402Version |-> X402_VERSION,
     scheme |-> "exact",
     network |-> IF token \in {"tok-base", "tok-base-b"}
                 THEN "base" ELSE "base-sepolia",
     token |-> token]

\* (variant) A matcher that accepts every payload for every requirement.
MatchesAnything(requirement, payment) == TRUE

\* x402/shared findMatchingPaymentRequirements over the singleton list.
Matches(requirement, payment) ==
    /\ requirement.scheme = payment.scheme
    /\ requirement.network = payment.network

\* `!paymentHeader` and `!payment`: no proof came with the request.
ProofMissing(token) == token = Undefined

\* PaymentProcessor.verifyPayment up to its await: the failure it returns
\* without calling the facilitator, or the call it makes.
VerifyPaymentBegin(token, requirement) ==
    IF ~Decodable(token)
    THEN [kind |-> "failure", code |-> "INVALID_PAYMENT",
          message |-> "Invalid payment", payer |-> Undefined,
          requirements |-> <<requirement>>]
    ELSE IF ~Matches(requirement, DecodePayment(token))
    THEN [kind |-> "failure", code |-> "NO_MATCHING_REQUIREMENTS",
          message |-> "Unable to find matching payment requirements",
          payer |-> Undefined, requirements |-> <<requirement>>]
    ELSE [kind |-> "call", code |-> "", message |-> "", payer |-> Undefined,
          requirements |-> <<requirement>>]

\* What the facilitator's verify capability may answer.
VerifyAnswers ==
    { [kind |-> "valid", invalidReason |-> Undefined, payer |-> "0xpayer"],
      [kind |-> "invalid", invalidReason |-> "insufficient_funds", payer |-> "0xpayer"],
      [kind |-> "invalid", invalidReason |-> Undefined, payer |-> Undefined],
      [kind |-> "raise", invalidReason |-> "fetch failed", payer |-> Undefined] }

\* (variant) A verifier that drops the isValid test: every answer the facilitator
\* gives without raising counts as a success.
VerifyPaymentEndNoValidTest(answer) ==
    IF answer.kind = "raise"
    THEN [kind |-> "failure", code |-> "VERIFICATION_ERROR",
          message |-> answer.invalidReason, payer |-> Undefined]
    ELSE [kind |-> "success", code |-> "", message |-> "", payer |-> answer.payer]

\* PaymentProcessor.verifyPayment after its await.
VerifyPaymentEnd(answer) ==
    IF answer.kind = "raise"
    THEN [kind |-> "failure", code |-> "VERIFICATION_ERROR",
          message |-> answer.invalidReason, payer |-> Undefined]
    ELSE IF answer.kind # "valid"
    THEN [kind |-> "failure", code |-> "VERIFICATION_FAILED",
          message |-> IF answer.invalidReason # Undefined
                      THEN answer.invalidReason
                      ELSE "Payment verification failed",
          payer |-> answer.payer]
    ELSE [kind |-> "success", code |-> "", message |-> "", payer |-> answer.payer]

\* What the facilitator's settle capability may answer.
SettleAnswers ==
    { [kind |-> "success", transaction |-> "0xabc", network |-> "base",
       payer |-> "0xpayer", error |-> Undefined],
      [kind |-> "failure", transaction |-> Undefined, network |-> Undefined,
       payer |-> Undefined, error |-> Undefined],
      [kind |-> "raise", transaction |-> Undefined, network |-> Undefined,
       payer |-> Undefined, error |-> "fetch failed"] }

\* (variant) A settlePayment that loses the message of a raised error.
SettlementResultOfLosesError(answer) ==
    [success |-> answer.kind = "success",
     transaction |-> answer.transaction, network |-> answer.network,
     payer |-> answer.payer, error |-> Undefined]

\* PaymentProcessor.settlePayment after its await: the facilitator's answer
\* as a SettlementResult, a raise caught and mapped to success=false.
SettlementResultOf(answer) ==
    IF answer.kind = "raise"
    THEN [success |-> FALSE, transaction |-> Undefined, network |-> Undefined,
          payer |-> Undefined, error |-> answer.error]
    ELSE [success |-> answer.kind = "success",
          transaction |-> answer.transaction, network |-> answer.network,
          payer |-> answer.payer, error |-> Undefined]

\* PaymentProcessor.addSettlementHeaders and the plugin's own header write:
\* the JSON of a successful settlement.
SettlementJson(res) ==
    JsonStringify([success |-> "true", transaction |-> res.transaction,
                   network |-> res.network, payer |-> res.payer])

\* The marker settlePaymentAsync writes.
PendingMarker ==
    SafeBase64Encode(JsonStringify([status |-> "pending_settlement"]))

\* Headers.set: replaces the value; the caller checks `writable` first, since
\* on a response with immutable headers (one that came from fetch, or from
\* Response.redirect) set raises a TypeError.
HeadersSet(rsp, name, value) ==
    [rsp EXCEPT !.headers = [@ EXCEPT ![name] = value]]

\* The JSON addSettlementHeaders writes for a failed settlement.
SettlementErrorJson(res) ==
    JsonStringify([success |-> "false", error |-> res.error])

\* (variant) A decoration that knows the success header only.
AddSettlementHeadersSuccessOnly(rsp, res) ==
    IF res.success
    THEN HeadersSet(rsp, HdrResponse, SafeBase64Encode(SettlementJson(res)))
    ELSE rsp

\* PaymentProcessor.addSettlementHeaders.
AddSettlementHeaders(rsp, res) ==
    IF res.success
    THEN HeadersSet(rsp, HdrResponse, SafeBase64Encode(SettlementJson(res)))
    ELSE HeadersSet(rsp, HdrError, SafeBase64Encode(SettlementErrorJson(res)))

\* (variant) A short-circuit test that lets status 400 itself through.
IsErrorStatusStrict(status) == status > ErrorStatusFloor

\* response.status >= 400 in the settle closure.
IsErrorStatus(status) == status >= ErrorStatusFloor

\* (variant) A 402 body that leaves the requirements out.
BuildPaymentRequiredResponseNoAccepts(error, accepts, payer) ==
    [status |-> PaymentRequiredStatus,
     body |-> [x402Version |-> X402_VERSION, error |-> error, accepts |-> <<>>]]

\* buildPaymentRequiredResponse, with a payer that JSON.stringify drops when
\* it is undefined.
BuildPaymentRequiredResponse(error, accepts, payer) ==
    [status |-> PaymentRequiredStatus,
     body |-> IF payer = Undefined
              THEN [x402Version |-> X402_VERSION, error |-> error,
                    accepts |-> accepts]
              ELSE [x402Version |-> X402_VERSION, error |-> error,
                    accepts |-> accepts, payer |-> payer]]

\* (variant) A construction failure answered as a payment request.
BuildConfigErrorResponseAsPaymentRequired(failure) ==
    [status |-> PaymentRequiredStatus,
     body |-> [x402Version |-> X402_VERSION, error |-> failure.message,
               code |-> failure.code]]

\* The rejection ensurePayment builds from a PaymentFailure of the builder.
BuildConfigErrorResponse(failure) ==
    [status |-> ConfigErrorStatus,
     body |-> [x402Version |-> X402_VERSION, error |-> failure.message,
               code |-> failure.code]]

\* asyncSettlement?.maxRetries ?? 3 and asyncSettlement?.retryDelay ?? 1000;
\* an option left unset is the empty sequence.
MaxRetriesOf(opts) ==
    IF opts.maxRetries = <<>> THEN DefaultMaxRetries ELSE opts.maxRetries[1]
RetryDelayOf(opts) ==
    IF opts.retryDelay = <<>> THEN DefaultRetryDelay ELSE opts.retryDelay[1]

\* The loop condition of settlePaymentInBackground.
LoopContinues(attempt, maxRetries) == attempt <= maxRetries

\* (variant) A last-attempt test that is off by one.
IsLastAttemptEarly(attempt, maxRetries) == attempt >= maxRetries - 1

\* The last-attempt test in the catch block of settlePaymentInBackground.
IsLastAttempt(attempt, maxRetries) == attempt = maxRetries

\* setTimeout(resolve, retryDelay * attempt).
BackoffDelay(retryDelay, attempt) == retryDelay * attempt

\* new Error(settlementResult.error || "Settlement failed").
SettlementErrorOf(res) ==
    IF res.error # Undefined THEN res.error ELSE "Settlement failed"

\* ---------------------------------------------------------------- state
VARIABLES
    cfg,          \* the asyncSettlement options of the gatekeeper instance
    conf,         \* the PaymentProcessor's config: recipient and network
    adapter,      \* "http" (createPaymentPlugin), "tool" (createPaidToolMethod)
                  \* or "core" (a PaymentProcessor called directly)
    active,       \* the requests that arrive in this run
    inp,          \* per request: the price asked and the proof token carried
    pc,           \* per request: where its handling stands
    gate,         \* per request: what ensurePayment / the tool gate returned
    verifyCalls,  \* per request: facilitator verify calls made
    verified,     \* per request: a verify call answered isValid=true
    verification, \* per request: the facilitator's answer to its verify call
    handlerCalls, \* per request: invocations of the handler / tool callback
    handlerDone,  \* per request: the handler / tool callback has returned
    resp,         \* per request: the handler's Response (status, headers)
    settleInv,    \* per request: invocations of the settle closure
    settleCalls,  \* per request: facilitator settle calls made for its context
    settleLog,    \* per request: the contexts handed to the facilitator's
                  \* settle capability, one per call, in the order made
    settleOut,    \* per request: the last outcome the settle closure returned
    settlement,   \* per request: the last answer of the facilitator to a
                  \* settlePayment awaited by the caller, and its result
    result,       \* per request: the tool result handed back to the caller
    tasks         \* the background settlement tasks, in the order started

vars == <<cfg, conf, adapter, active, inp, pc, gate, verifyCalls, verified,
          verification,
          handlerCalls, handlerDone, resp, settleInv, settleCalls, settleLog,
          settleOut, settlement, result, tasks>>

config == <<cfg, conf, adapter, active, inp>>

NoGate == [kind |-> "none"]
NoResponse == [status |-> 0, writable |-> FALSE, headers |-> NoHeaders]
NoOutcome == [kind |-> "none"]
NoSettlement == [kind |-> "none"]
NoVerification == [kind |-> "none"]
NoResult == [kind |-> "none"]

\* The URL and the explicit resource each adapter passes to the builder.
RequestUrl == IF adapter = "http" THEN "http://api/paid" ELSE "http://localhost"
ResourceArg ==
    CASE adapter = "http" -> Undefined
      [] adapter = "tool" -> "mcp://tool/name"
      [] OTHER -> "http://localhost/test"

\* The configurations a route may hand to ensurePayment with request r.
\* ensurePayment reads the price of it (and resource and config, left unset
\* here); nothing in the plugin reads payTo or network.
EnsurePaymentConfigs(r) ==
    { [payTo |-> "0xpayee", price |-> inp[r].price, network |-> n] :
        n \in {"base", "base-sepolia"} }

\* How often a handler invokes its settle closure: once, the designed usage,
\* in the runs with several requests in flight; up to the bound otherwise.
SettleInvocations ==
    IF Cardinality(active) > 1 THEN 1 ELSE MaxSettleInvocations

\* The requirement built for request r (recomputed per request, not cached).
Requirement(r) ==
    CreatePaymentRequirements(conf, RequestUrl, inp[r].price, ResourceArg)

\* What a handler may answer: a status, and whether its headers can be written.
Statuses == {200, 400, 500}

AsyncConfigs ==
    { [enabled |-> TRUE, maxRetries |-> m, retryDelay |-> d] :
        m \in {<<>>} \cup { <<i>> : i \in (0 - 1)..MaxRetriesCfg },
        d \in {<<>>, <<250>>} }
SyncConfig == [enabled |-> FALSE, maxRetries |-> <<>>, retryDelay |-> <<>>]

\* createPaymentPlugin builds its processor with network "base" and with
\* recipient "" (payment-plugin.ts:86-88), leaving the recipient "to be set in
\* ensurePayment", which never sets it: as built, every HTTP request with a
\* well-formed price ends in getAddress("") raising. The HTTP runs with the
\* recipient in place exercise the code of lines 122-224 as that comment
\* describes the processor. The tool wrapper takes the caller's config.
\* A processor constructed directly takes whatever its caller configures,
\* a network outside the typed ones included.
ProcessorConfigs ==
    CASE adapter = "http" ->
           { [recipient |-> a, network |-> "base"] : a \in {"", "0xpayee"} }
      [] adapter = "tool" ->
           { [recipient |-> a, network |-> n] :
               a \in {"", "0xpayee"}, n \in {"base", "base-sepolia"} }
      [] OTHER ->
           { [recipient |-> a, network |-> n] :
               a \in {"", "0xpayee"}, n \in {"base", "solana", "localnet"} }

Inputs ==
    [price : {"abc", "$0.001"},
     proof : {Undefined, "garbage", "tok-base", "tok-sepolia"}]

\* The request that does not arrive.
NoInput == [price |-> "abc", proof |-> Undefined]

Init ==
    /\ cfg \in AsyncConfigs \cup {SyncConfig}
    /\ adapter \in {"http", "tool", "core"}
    /\ conf \in ProcessorConfigs
    /\ active = {1}
    /\ inp \in [Reqs -> Inputs]
    /\ \A r \in Reqs \ active : inp[r] = NoInput
    /\ pc = [r \in Reqs |-> IF r \in active THEN "start" ELSE "idle"]
    /\ gate = [r \in Reqs |-> NoGate]
    /\ verifyCalls = [r \in Reqs |-> 0]
    /\ verified = [r \in Reqs |-> FALSE]
    /\ verification = [r \in Reqs |-> NoVerification]
    /\ handlerCalls = [r \in Reqs |-> 0]
    /\ handlerDone = [r \in Reqs |-> FALSE]
    /\ resp = [r \in Reqs |-> NoResponse]
    /\ settleInv = [r \in Reqs |-> 0]
    /\ settleCalls = [r \in Reqs |-> 0]
    /\ settleLog = [r \in Reqs |-> <<>>]
    /\ settleOut = [r \in Reqs |-> NoOutcome]
    /\ settlement = [r \in Reqs |-> NoSettlement]
    /\ result = [r \in Reqs |-> NoResult]
    /\ tasks = <<>>

\* --------------------------------------------------- the HTTP plugin
\* ensurePayment up to its first suspension: the requirement, the header
\* check, and verifyPayment's decode and match; only then the facilitator.
HttpEnsurePayment(r) ==
    /\ adapter = "http"
    /\ pc[r] = "start"
    /\ LET req == Requirement(r)
           begin == VerifyPaymentBegin(inp[r].proof, req)
       IN
       IF req.kind = "raise"
       THEN /\ pc' = [pc EXCEPT ![r] = "raised"]
            /\ gate' = [gate EXCEPT ![r] = [kind |-> "raise"]]
            /\ UNCHANGED verifyCalls
       ELSE IF req.kind = "failure"
       THEN /\ pc' = [pc EXCEPT ![r] = "rejected"]
            /\ gate' = [gate EXCEPT ![r] =
                 [kind |-> "rejection"] @@ BuildConfigErrorResponse(req)]
            /\ UNCHANGED verifyCalls
       ELSE IF ProofMissing(inp[r].proof)
       THEN /\ pc' = [pc EXCEPT ![r] = "rejected"]
            /\ gate' = [gate EXCEPT ![r] =
                 [kind |-> "rejection"] @@
                 BuildPaymentRequiredResponse("X-PAYMENT header is required",
                                              <<req>>, Undefined)]
            /\ UNCHANGED verifyCalls
       ELSE IF begin.kind = "failure"
       THEN /\ pc' = [pc EXCEPT ![r] = "rejected"]
            /\ gate' = [gate EXCEPT ![r] =
                 [kind |-> "rejection"] @@
                 BuildPaymentRequiredResponse(begin.message, <<req>>,
                                              begin.payer)]
            /\ UNCHANGED verifyCalls
       ELSE /\ pc' = [pc EXCEPT ![r] = "verifying"]
            /\ verifyCalls' = [verifyCalls EXCEPT ![r] = @ + 1]
            /\ UNCHANGED gate
    /\ UNCHANGED <<config, settlement, verified, verification, handlerCalls,
                   handlerDone, resp, settleInv, settleCalls, settleOut,
                   result, tasks, settleLog>>

\* ensurePayment resumed by the facilitator's verify answer: a rejection, or
\* the admission that carries the settle closure.
HttpVerifyReturn(r) ==
    /\ adapter = "http"
    /\ pc[r] = "verifying"
    /\ \E answer \in VerifyAnswers :
         LET res == VerifyPaymentEnd(answer) IN
         /\ verified' = [verified EXCEPT ![r] = answer.kind = "valid"]
         /\ verification' = [verification EXCEPT ![r] = answer]
         /\ IF res.kind = "success"
            THEN /\ pc' = [pc EXCEPT ![r] = "admitted"]
                 /\ gate' = [gate EXCEPT ![r] =
                      [kind |-> "admission",
                       payment |-> DecodePayment(inp[r].proof),
                       requirements |-> Requirement(r)]]
            ELSE /\ pc' = [pc EXCEPT ![r] = "rejected"]
                 /\ gate' = [gate EXCEPT ![r] =
                      [kind |-> "rejection"] @@
                      BuildPaymentRequiredResponse(res.message,
                                                   <<Requirement(r)>>, res.payer)]
    /\ UNCHANGED <<config, settlement, verifyCalls, handlerCalls, handlerDone,
                   resp, settleInv, settleCalls, settleOut, result, tasks,
                   settleLog>>

\* The route handler goes on to its business logic once admitted
\* (examples/http-plugin.ts: `if (!paymentResult.ok) return ...`).
HttpHandlerInvoke(r) ==
    /\ adapter = "http"
    /\ pc[r] = "admitted"
    /\ pc' = [pc EXCEPT ![r] = "handler"]
    /\ handlerCalls' = [handlerCalls EXCEPT ![r] = @ + 1]
    /\ UNCHANGED <<config, settlement, gate, verifyCalls, verified,
                   verification, handlerDone, resp, settleInv, settleCalls,
                   settleOut, result, tasks, settleLog>>

\* The business logic ends with a Response of its own making.
HttpHandlerReturn(r) ==
    /\ adapter = "http"
    /\ pc[r] = "handler"
    /\ \E status \in Statuses, writable \in BOOLEAN :
         resp' = [resp EXCEPT ![r] =
                    [status |-> status, writable |-> writable,
                     headers |-> NoHeaders]]
    /\ pc' = [pc EXCEPT ![r] = "responded"]
    /\ handlerDone' = [handlerDone EXCEPT ![r] = TRUE]
    /\ UNCHANGED <<config, settlement, gate, verifyCalls, verified,
                   verification, handlerCalls, settleInv, settleCalls,
                   settleOut, result, tasks, settleLog>>

\* ------------------------------------------- deferred settlement task
\* (variant) A gatekeeper that keeps the context of the latest admission in
\* a field of its own and settles whatever that field holds.
ContextOfLastAdmitted(r) ==
    LET admitted == {q \in Reqs : gate[q].kind = "admission"}
        last == CHOOSE q \in admitted : \A o \in admitted : o <= q
    IN [payment |-> gate[last].payment,
        requirements |-> gate[last].requirements]

\* verificationResult.context of request r: the PaymentContext verifyPayment
\* built, held by the settle closure (and by cbWithPayment) of that request.
ContextOf(r) ==
    [payment |-> gate[r].payment, requirements |-> gate[r].requirements]

\* The log of a request after n more facilitator settle calls with a context.
IssueCalls(log, n, context) == log \o [i \in 1..n |-> context]

\* (variant) A background task whose first attempt has been awaited to its
\* successful end before the caller goes on.
StartBackgroundAwaited(ctx, maxRetries) ==
    [ctx |-> ctx, context |-> ContextOf(ctx),
     pc |-> "done", attempt |-> 1, attempts |-> 1, succ |-> 1,
     err |-> 0, errArg |-> Undefined, lastError |-> Undefined, okAt |-> 1,
     waits |-> <<>>]

\* settlePaymentInBackground from its call to its first await: the loop is
\* entered with attempt = 1 and the first facilitator settle call is made,
\* unless maxRetries admits no attempt at all.
StartBackground(ctx, maxRetries) ==
    LET enters == LoopContinues(1, maxRetries) IN
    [ctx |-> ctx,
     context |-> ContextOf(ctx),
     pc |-> IF enters THEN "settle" ELSE "done",
     attempt |-> 1,
     attempts |-> IF enters THEN 1 ELSE 0,
     succ |-> 0,
     err |-> 0,
     errArg |-> Undefined,
     lastError |-> Undefined,
     okAt |-> 0,
     waits |-> <<>>]

\* The catch block of the loop: onSettlementError on the last attempt, else
\* the backoff timer.
CatchInLoop(task, error, maxRetries, retryDelay) ==
    IF IsLastAttempt(task.attempt, maxRetries)
    THEN [task EXCEPT !.err = @ + 1, !.errArg = error, !.pc = "done"]
    ELSE [task EXCEPT !.pc = "wait",
                      !.waits = Append(@, BackoffDelay(retryDelay, task.attempt))]

\* The loop body resumed by the facilitator's answer to one attempt. A
\* successful result calls onSettlementSuccess inside the try block, so an
\* error the callback raises lands in the same catch as a failed attempt.
AfterAttempt(task, answer, callbackRaises, maxRetries, retryDelay) ==
    LET res == SettlementResultOf(answer) IN
    IF res.success
    THEN LET called == [task EXCEPT !.succ = @ + 1,
                                    !.okAt = IF @ = 0 THEN task.attempt ELSE @]
         IN IF callbackRaises
            THEN CatchInLoop(called, "callback error", maxRetries, retryDelay)
            ELSE [called EXCEPT !.pc = "done"]
    ELSE CatchInLoop([task EXCEPT !.lastError = SettlementErrorOf(res)],
                     SettlementErrorOf(res), maxRetries, retryDelay)

\* (variant) A task that is dropped during a wait: the timer never resumes
\* the loop.
AfterWaitAbandoned(task, maxRetries) == [task EXCEPT !.pc = "abandoned"]

\* The loop resumed by the timer: attempt++, the loop condition, and the next
\* facilitator settle call.
AfterWait(task, maxRetries) ==
    LET next == task.attempt + 1 IN
    IF LoopContinues(next, maxRetries)
    THEN [task EXCEPT !.attempt = next, !.attempts = @ + 1, !.pc = "settle"]
    ELSE [task EXCEPT !.attempt = next, !.pc = "done"]

\* (variant) A background task that decorates the response with its outcome
\* as the synchronous path does.
ResponseAfterBackgroundDecorated(rsp, task) ==
    IF task.succ > 0
    THEN HeadersSet(rsp, HdrResponse,
                    SafeBase64Encode(JsonStringify([success |-> "true"])))
    ELSE IF task.err > 0
    THEN HeadersSet(rsp, HdrError,
                    SafeBase64Encode(JsonStringify([success |-> "false"])))
    ELSE rsp

\* settlePaymentInBackground is handed the context alone: no step of it
\* holds the response.
ResponseAfterBackground(rsp, task) == rsp

BgSettleReturn(t) ==
    /\ t \in DOMAIN tasks
    /\ tasks[t].pc = "settle"
    /\ \E answer \in SettleAnswers :
         \E callbackRaises \in IF answer.kind = "success" THEN BOOLEAN ELSE {FALSE} :
           LET after == AfterAttempt(tasks[t], answer, callbackRaises,
                                     MaxRetriesOf(cfg), RetryDelayOf(cfg))
           IN /\ tasks' = [tasks EXCEPT ![t] = after]
              /\ resp' = [resp EXCEPT ![tasks[t].ctx] =
                            ResponseAfterBackground(@, after)]
    /\ UNCHANGED <<config, settlement, pc, gate, verifyCalls, verified,
                   verification, handlerCalls, handlerDone, settleInv,
                   settleCalls, settleOut, result, settleLog>>

BgWaitReturn(t) ==
    /\ t \in DOMAIN tasks
    /\ tasks[t].pc = "wait"
    /\ LET after == AfterWait(tasks[t], MaxRetriesOf(cfg)) IN
         /\ tasks' = [tasks EXCEPT ![t] = after]
         /\ settleCalls' = [settleCalls EXCEPT ![tasks[t].ctx] =
                              @ + (after.attempts - tasks[t].attempts)]
         /\ resp' = [resp EXCEPT ![tasks[t].ctx] =
                       ResponseAfterBackground(@, after)]
    /\ settleLog' = [settleLog EXCEPT ![tasks[t].ctx] =
         IssueCalls(@, settleCalls'[tasks[t].ctx] - settleCalls[tasks[t].ctx],
                    tasks[t].context)]
    /\ UNCHANGED <<config, settlement, pc, gate, verifyCalls, verified,
                   verification, handlerCalls, handlerDone, settleInv,
                   settleOut, result>>

\* ------------------------------------------------ the settle closure
\* settlePaymentAsync with asyncSettlement.enabled: the background task is
\* started first, then the marker is written on the response.
MarkPending(rsp) == HeadersSet(rsp, HdrStatus, PendingMarker)

\* (variant) A closure that remembers a settlement it has had answered and
\* returns at once when invoked again.
ClosureReturnsAtOnceIfSettled(r, status) ==
    IsErrorStatus(status) \/ settlement[r].kind = "settled"

\* The one early return of the settle closure: `if (response.status >= 400)`.
\* Nothing else is tested, no flag of an earlier invocation is kept.
ClosureReturnsAtOnce(r, status) == IsErrorStatus(status)

\* The closure ensurePayment returned, invoked by the handler with its
\* response. An error status returns at once. With async settlement the
\* whole of settlePaymentAsync runs before the closure returns; a header
\* write that raises is caught and answered with a 402. Without, the closure
\* suspends on the facilitator's settle call.
HttpSettle(r) ==
    /\ adapter = "http"
    /\ pc[r] = "responded"
    /\ settleInv[r] < SettleInvocations
    /\ settleInv' = [settleInv EXCEPT ![r] = @ + 1]
    /\ IF ClosureReturnsAtOnce(r, resp[r].status)
       THEN /\ settleOut' = [settleOut EXCEPT ![r] =
                               [kind |-> "returned", ok |-> TRUE, response |-> "same"]]
            /\ UNCHANGED <<pc, resp, settleCalls, tasks>>
       ELSE IF cfg.enabled
       THEN LET task == StartBackground(r, MaxRetriesOf(cfg)) IN
            /\ tasks' = Append(tasks, task)
            /\ settleCalls' = [settleCalls EXCEPT ![r] = @ + task.attempts]
            /\ IF resp[r].writable
               THEN /\ resp' = [resp EXCEPT ![r] = MarkPending(@)]
                    /\ settleOut' = [settleOut EXCEPT ![r] =
                         [kind |-> "returned", ok |-> TRUE, response |-> "same"]]
               ELSE /\ settleOut' = [settleOut EXCEPT ![r] =
                         [kind |-> "returned", ok |-> FALSE, response |-> "new"] @@
                         BuildPaymentRequiredResponse("immutable",
                                                      <<Requirement(r)>>, Undefined)]
                    /\ UNCHANGED resp
            /\ UNCHANGED pc
       ELSE /\ pc' = [pc EXCEPT ![r] = "settling"]
            /\ settleCalls' = [settleCalls EXCEPT ![r] = @ + 1]
            /\ UNCHANGED <<resp, settleOut, tasks>>
    /\ settleLog' = [settleLog EXCEPT ![r] =
         IssueCalls(@, settleCalls'[r] - settleCalls[r], ContextOf(r))]
    /\ UNCHANGED <<config, settlement, gate, verifyCalls, verified,
                   verification, handlerCalls, handlerDone, result>>

\* The closure's synchronous branch resumed by the facilitator's answer:
\* the success header is written on success, nothing on failure, ok=true
\* either way; only a raising header write reaches the catch.
HttpSettleReturn(r) ==
    /\ adapter = "http"
    /\ pc[r] = "settling"
    /\ \E answer \in SettleAnswers :
         LET res == SettlementResultOf(answer) IN
         /\ settlement' = [settlement EXCEPT ![r] =
                             [kind |-> "settled", answer |-> answer, result |-> res]]
         /\ IF res.success /\ ~resp[r].writable
            THEN /\ settleOut' = [settleOut EXCEPT ![r] =
                      [kind |-> "returned", ok |-> FALSE, response |-> "new"] @@
                      BuildPaymentRequiredResponse("immutable",
                                                   <<Requirement(r)>>, Undefined)]
                 /\ UNCHANGED resp
            ELSE /\ settleOut' = [settleOut EXCEPT ![r] =
                      [kind |-> "returned", ok |-> TRUE, response |-> "same"]]
                 /\ resp' = [resp EXCEPT ![r] =
                      IF res.success
                      THEN HeadersSet(@, HdrResponse,
                                      SafeBase64Encode(SettlementJson(res)))
                      ELSE @]
    /\ pc' = [pc EXCEPT ![r] = "responded"]
    /\ UNCHANGED <<config, gate, verifyCalls, verified, verification,
                   handlerCalls, handlerDone, settleInv, settleCalls, result,
                   tasks, settleLog>>

\* ------------------------------------------------ the paid tool wrapper
NoMeta == [absent |-> "true"]

\* A tool result as the caller receives it: the error flag and the two
\* payment keys of _meta.
ToolResult(isError, status, response) ==
    [kind |-> "returned", isError |-> isError,
     metaStatus |-> status, metaResponse |-> response]

\* (variant) A wrapper that writes the payment response whatever the
\* settlement came to.
PaymentResponseMetaAlways(res) ==
    [success |-> "true", transaction |-> res.transaction,
     network |-> res.network, payer |-> res.payer]

\* `if (settlementResult.success && result)`: the value of
\* _meta["x402/payment-response"] after a synchronous settlement.
PaymentResponseMeta(res) ==
    IF res.success
    THEN [success |-> "true", transaction |-> res.transaction,
          network |-> res.network, payer |-> res.payer]
    ELSE NoMeta

\* The error-flagged result of a rejection, whatever its structuredContent.
ToolRejection == ToolResult(TRUE, Undefined, NoMeta)

\* cbWithPayment up to its first suspension: the requirement, the _meta
\* check, and verifyPayment's decode and match.
ToolCall(r) ==
    /\ adapter = "tool"
    /\ pc[r] = "start"
    /\ LET req == Requirement(r)
           begin == VerifyPaymentBegin(inp[r].proof, req)
       IN
       IF req.kind = "raise"
       THEN /\ pc' = [pc EXCEPT ![r] = "raised"]
            /\ gate' = [gate EXCEPT ![r] = [kind |-> "raise"]]
            /\ UNCHANGED <<verifyCalls, result>>
       ELSE IF req.kind = "failure"
       THEN /\ pc' = [pc EXCEPT ![r] = "rejected"]
            /\ gate' = [gate EXCEPT ![r] =
                 [kind |-> "rejection", status |-> 0,
                  body |-> [success |-> "false",
                            error |-> [code |-> req.code,
                                       message |-> req.message]]]]
            /\ result' = [result EXCEPT ![r] = ToolRejection]
            /\ UNCHANGED verifyCalls
       ELSE IF ProofMissing(inp[r].proof)
       THEN /\ pc' = [pc EXCEPT ![r] = "rejected"]
            /\ gate' = [gate EXCEPT ![r] =
                 [kind |-> "rejection", status |-> 0,
                  body |-> [x402Version |-> 1,
                            error |-> "_meta.x402/payment is required",
                            accepts |-> <<req>>]]]
            /\ result' = [result EXCEPT ![r] = ToolRejection]
            /\ UNCHANGED verifyCalls
       ELSE IF begin.kind = "failure"
       THEN /\ pc' = [pc EXCEPT ![r] = "rejected"]
            /\ gate' = [gate EXCEPT ![r] =
                 [kind |-> "rejection", status |-> 0,
                  body |-> [success |-> "false",
                            error |-> [code |-> begin.code,
                                       message |-> begin.message],
                            requirements |-> <<req>>]]]
            /\ result' = [result EXCEPT ![r] = ToolRejection]
            /\ UNCHANGED verifyCalls
       ELSE /\ pc' = [pc EXCEPT ![r] = "verifying"]
            /\ verifyCalls' = [verifyCalls EXCEPT ![r] = @ + 1]
            /\ UNCHANGED <<gate, result>>
    /\ UNCHANGED <<config, settlement, verified, verification, handlerCalls,
                   handlerDone, resp, settleInv, settleCalls, settleOut,
                   tasks, settleLog>>

\* cbWithPayment resumed by the facilitator's verify answer: the rejection,
\* or the call of the wrapped tool callback.
ToolVerifyReturn(r) ==
    /\ adapter = "tool"
    /\ pc[r] = "verifying"
    /\ \E answer \in VerifyAnswers :
         LET res == VerifyPaymentEnd(answer) IN
         /\ verified' = [verified EXCEPT ![r] = answer.kind = "valid"]
         /\ verification' = [verification EXCEPT ![r] = answer]
         /\ IF res.kind = "success"
            THEN /\ pc' = [pc EXCEPT ![r] = "handler"]
                 /\ handlerCalls' = [handlerCalls EXCEPT ![r] = @ + 1]
                 /\ gate' = [gate EXCEPT ![r] =
                      [kind |-> "admission",
                       payment |-> DecodePayment(inp[r].proof),
                       requirements |-> Requirement(r)]]
                 /\ UNCHANGED result
            ELSE /\ pc' = [pc EXCEPT ![r] = "rejected"]
                 /\ gate' = [gate EXCEPT ![r] =
                      [kind |-> "rejection", status |-> 0,
                       body |-> [success |-> "false",
                                 error |-> [code |-> res.code,
                                            message |-> res.message,
                                            payer |-> res.payer],
                                 requirements |-> <<Requirement(r)>>]]]
                 /\ result' = [result EXCEPT ![r] = ToolRejection]
                 /\ UNCHANGED handlerCalls
    /\ UNCHANGED <<config, settlement, verifyCalls, handlerDone, resp,
                   settleInv, settleCalls, settleOut, tasks, settleLog>>

\* How the wrapped tool callback may end.
ToolOutcomes == {"ok", "isError", "raise"}

\* (variant) A wrapper that takes only a raise of the tool for a failure.
ExecutionErrorOnRaiseOnly(outcome) == outcome = "raise"

\* executionError: the tool callback raised, or its result is flagged isError.
ExecutionError(outcome) == outcome \in {"raise", "isError"}

\* cbWithPayment resumed by the tool callback. A raise or an error-flagged
\* result is handed back unsettled. Otherwise, with async settlement the
\* result is marked pending, settlePaymentAsync is called on a fresh
\* Response without being awaited, and the result is returned; without, the
\* wrapper suspends on the facilitator's settle call.
ToolCbReturn(r) ==
    /\ adapter = "tool"
    /\ pc[r] = "handler"
    /\ handlerDone' = [handlerDone EXCEPT ![r] = TRUE]
    /\ \E outcome \in ToolOutcomes :
         IF ExecutionError(outcome)
         THEN /\ result' = [result EXCEPT ![r] = ToolResult(TRUE, Undefined, NoMeta)]
              /\ pc' = [pc EXCEPT ![r] = "done"]
              /\ UNCHANGED <<resp, settleCalls, tasks>>
         ELSE IF cfg.enabled
         THEN LET task == StartBackground(r, MaxRetriesOf(cfg)) IN
              /\ tasks' = Append(tasks, task)
              /\ settleCalls' = [settleCalls EXCEPT ![r] = @ + task.attempts]
              /\ resp' = [resp EXCEPT ![r] =
                   MarkPending([status |-> 200, writable |-> TRUE,
                                headers |-> NoHeaders])]
              /\ result' = [result EXCEPT ![r] =
                   ToolResult(outcome = "isError", "pending_settlement",
                              NoMeta)]
              /\ pc' = [pc EXCEPT ![r] = "done"]
         ELSE /\ pc' = [pc EXCEPT ![r] = "settling"]
              /\ settleCalls' = [settleCalls EXCEPT ![r] = @ + 1]
              /\ UNCHANGED <<resp, result, tasks>>
    /\ settleLog' = [settleLog EXCEPT ![r] =
         IssueCalls(@, settleCalls'[r] - settleCalls[r], ContextOf(r))]
    /\ UNCHANGED <<config, settlement, gate, verifyCalls, verified,
                   verification, handlerCalls, settleInv, settleOut>>

\* cbWithPayment resumed by the facilitator's settle answer: the tool's
\* result, with the payment response in _meta when settlement succeeded.
ToolSettleReturn(r) ==
    /\ adapter = "tool"
    /\ pc[r] = "settling"
    /\ \E answer \in SettleAnswers :
         LET res == SettlementResultOf(answer) IN
         /\ settlement' = [settlement EXCEPT ![r] =
                             [kind |-> "settled", answer |-> answer, result |-> res]]
         /\ result' = [result EXCEPT ![r] =
              ToolResult(FALSE, Undefined, PaymentResponseMeta(res))]
    /\ pc' = [pc EXCEPT ![r] = "done"]
    /\ UNCHANGED <<config, gate, verifyCalls, verified, verification,
                   handlerCalls, handlerDone, resp, settleInv, settleCalls,
                   settleOut, tasks, settleLog>>

\* ------------------------------------------- the processor called directly
\* A caller of its own (test-package.js, the tests of examples/mcp-server.ts)
\* builds the requirement and, when it has one, hands the proof to
\* verifyPayment: the decode and the match run before the first await.
CoreVerifyPayment(r) ==
    /\ adapter = "core"
    /\ pc[r] = "start"
    /\ LET req == Requirement(r)
           begin == VerifyPaymentBegin(inp[r].proof, req)
       IN
       IF req.kind = "raise"
       THEN /\ pc' = [pc EXCEPT ![r] = "raised"]
            /\ gate' = [gate EXCEPT ![r] = [kind |-> "raise"]]
            /\ UNCHANGED verifyCalls
       ELSE IF req.kind = "failure"
       THEN /\ pc' = [pc EXCEPT ![r] = "rejected"]
            /\ gate' = [gate EXCEPT ![r] =
                 [kind |-> "failure", status |-> 0,
                  body |-> [success |-> "false",
                            error |-> [code |-> req.code,
                                       message |-> req.message]]]]
            /\ UNCHANGED verifyCalls
       ELSE IF begin.kind = "failure"
       THEN /\ pc' = [pc EXCEPT ![r] = "rejected"]
            /\ gate' = [gate EXCEPT ![r] =
                 [kind |-> "rejection", status |-> 0,
                  body |-> [success |-> "false",
                            error |-> [code |-> begin.code,
                                       message |-> begin.message],
                            requirements |-> begin.requirements]]]
            /\ UNCHANGED verifyCalls
       ELSE /\ pc' = [pc EXCEPT ![r] = "verifying"]
            /\ verifyCalls' = [verifyCalls EXCEPT ![r] = @ + 1]
            /\ UNCHANGED gate
    /\ UNCHANGED <<config, settlement, verified, verification, handlerCalls,
                   handlerDone, resp, settleInv, settleCalls, settleOut,
                   result, tasks, settleLog>>

\* verifyPayment resumed by the facilitator's answer: the PaymentResult.
CoreVerifyReturn(r) ==
    /\ adapter = "core"
    /\ pc[r] = "verifying"
    /\ \E answer \in VerifyAnswers :
         LET res == VerifyPaymentEnd(answer) IN
         /\ verified' = [verified EXCEPT ![r] = answer.kind = "valid"]
         /\ verification' = [verification EXCEPT ![r] = answer]
         /\ IF res.kind = "success"
            THEN /\ pc' = [pc EXCEPT ![r] = "admitted"]
                 /\ gate' = [gate EXCEPT ![r] =
                      [kind |-> "admission",
                       payment |-> DecodePayment(inp[r].proof),
                       requirements |-> Requirement(r)]]
            ELSE /\ pc' = [pc EXCEPT ![r] = "rejected"]
                 /\ gate' = [gate EXCEPT ![r] =
                      [kind |-> "rejection", status |-> 0,
                       body |-> [success |-> "false",
                                 error |-> [code |-> res.code,
                                            message |-> res.message,
                                            payer |-> res.payer],
                                 requirements |-> <<Requirement(r)>>]]]
    /\ UNCHANGED <<config, settlement, verifyCalls, handlerCalls, handlerDone,
                   resp, settleInv, settleCalls, settleOut, result, tasks,
                   settleLog>>

\* settlePaymentAsync called with the context and a response of the caller's.
\* Without asyncSettlement.enabled it awaits settlePayment. With it, the
\* background task is started and the marker written before it returns; a
\* header write that raises leaves the call through its exception.
CoreSettlePaymentAsync(r) ==
    /\ adapter = "core"
    /\ pc[r] = "admitted"
    /\ settleInv' = [settleInv EXCEPT ![r] = @ + 1]
    /\ \E status \in Statuses, writable \in BOOLEAN :
         LET rsp == [status |-> status, writable |-> writable,
                     headers |-> NoHeaders]
         IN
         IF cfg.enabled
         THEN LET task == StartBackground(r, MaxRetriesOf(cfg)) IN
              /\ tasks' = Append(tasks, task)
              /\ settleCalls' = [settleCalls EXCEPT ![r] = @ + task.attempts]
              /\ pc' = [pc EXCEPT ![r] = "done"]
              /\ IF writable
                 THEN /\ resp' = [resp EXCEPT ![r] = MarkPending(rsp)]
                      /\ settleOut' = [settleOut EXCEPT ![r] =
                           [kind |-> "returned", ok |-> TRUE, response |-> "same"]]
                 ELSE /\ resp' = [resp EXCEPT ![r] = rsp]
                      /\ settleOut' = [settleOut EXCEPT ![r] =
                           [kind |-> "raised", ok |-> FALSE, response |-> "none"]]
         ELSE /\ pc' = [pc EXCEPT ![r] = "settling"]
              /\ settleCalls' = [settleCalls EXCEPT ![r] = @ + 1]
              /\ resp' = [resp EXCEPT ![r] = rsp]
              /\ UNCHANGED <<settleOut, tasks>>
    /\ settleLog' = [settleLog EXCEPT ![r] =
         IssueCalls(@, settleCalls'[r] - settleCalls[r], ContextOf(r))]
    /\ UNCHANGED <<config, settlement, gate, verifyCalls, verified,
                   verification, handlerCalls, handlerDone, result>>

\* settlePaymentAsync's synchronous branch resumed by the facilitator's
\* answer: addSettlementHeaders decorates the response, then it is returned.
CoreSettleReturn(r) ==
    /\ adapter = "core"
    /\ pc[r] = "settling"
    /\ \E answer \in SettleAnswers :
         LET res == SettlementResultOf(answer) IN
         /\ settlement' = [settlement EXCEPT ![r] =
                             [kind |-> "settled", answer |-> answer, result |-> res]]
         /\ IF resp[r].writable
            THEN /\ resp' = [resp EXCEPT ![r] = AddSettlementHeaders(@, res)]
                 /\ settleOut' = [settleOut EXCEPT ![r] =
                      [kind |-> "returned", ok |-> TRUE, response |-> "same"]]
            ELSE /\ settleOut' = [settleOut EXCEPT ![r] =
                      [kind |-> "raised", ok |-> FALSE, response |-> "none"]]
                 /\ UNCHANGED resp
    /\ pc' = [pc EXCEPT ![r] = "done"]
    /\ UNCHANGED <<config, gate, verifyCalls, verified, verification,
                   handlerCalls, handlerDone, settleInv, settleCalls, result,
                   tasks, settleLog>>

\* ----------------------------------------------------------- the system
\* No step of any request has been taken and no task started.
NothingDoneYet ==
    /\ pc = [r \in Reqs |-> IF r \in active THEN "start" ELSE "idle"]
    /\ gate = [r \in Reqs |-> NoGate]
    /\ verifyCalls = [r \in Reqs |-> 0]
    /\ verified = [r \in Reqs |-> FALSE]
    /\ verification = [r \in Reqs |-> NoVerification]
    /\ handlerCalls = [r \in Reqs |-> 0]
    /\ handlerDone = [r \in Reqs |-> FALSE]
    /\ resp = [r \in Reqs |-> NoResponse]
    /\ settleInv = [r \in Reqs |-> 0]
    /\ settleCalls = [r \in Reqs |-> 0]
    /\ settleLog = [r \in Reqs |-> <<>>]
    /\ settleOut = [r \in Reqs |-> NoOutcome]
    /\ settlement = [r \in Reqs |-> NoSettlement]
    /\ result = [r \in Reqs |-> NoResult]
    /\ tasks = <<>>

\* Two requests in flight on one gatekeeper instance, each admitted with a
\* proof and a price of its own, so that their contexts differ.
ConcurrentConfigs ==
    {SyncConfig, [enabled |-> TRUE, maxRetries |-> <<2>>, retryDelay |-> <<>>]}

InitConcurrent ==
    /\ cfg \in ConcurrentConfigs
    /\ adapter \in {"http", "tool", "core"}
    /\ conf = [recipient |-> "0xpayee", network |-> "base"]
    /\ active = Reqs
    /\ inp = [r \in Reqs |->
                IF r = 1 THEN [price |-> "$0.001", proof |-> "tok-base"]
                         ELSE [price |-> "$0.01", proof |-> "tok-base-b"]]
    /\ NothingDoneYet

\* A request that is admitted and settled once, under every retry setting,
\* beside a request that carries no usable proof.
InitSettledOnce ==
    /\ cfg \in AsyncConfigs \cup {SyncConfig}
    /\ adapter \in {"http", "tool", "core"}
    /\ conf = [recipient |-> "0xpayee", network |-> "base"]
    /\ active = Reqs
    /\ inp = [r \in Reqs |->
                IF r = 1 THEN [price |-> "$0.001", proof |-> "tok-base"]
                         ELSE [price |-> "$0.01", proof |-> "garbage"]]
    /\ NothingDoneYet

Next ==
    \/ \E r \in Reqs : HttpEnsurePayment(r)
    \/ \E r \in Reqs : HttpVerifyReturn(r)
    \/ \E r \in Reqs : HttpHandlerInvoke(r)
    \/ \E r \in Reqs : HttpHandlerReturn(r)
    \/ \E r \in Reqs : HttpSettle(r)
    \/ \E r \in Reqs : HttpSettleReturn(r)
    \/ \E r \in Reqs : ToolCall(r)
    \/ \E r \in Reqs : ToolVerifyReturn(r)
    \/ \E r \in Reqs : ToolCbReturn(r)
    \/ \E r \in Reqs : ToolSettleReturn(r)
    \/ \E r \in Reqs : CoreVerifyPayment(r)
    \/ \E r \in Reqs : CoreVerifyReturn(r)
    \/ \E r \in Reqs : CoreSettlePaymentAsync(r)
    \/ \E r \in Reqs : CoreSettleReturn(r)
    \/ \E t \in DOMAIN tasks : BgSettleReturn(t)
    \/ \E t \in DOMAIN tasks : BgWaitReturn(t)

Spec == Init /\ [][Next]_vars

SpecConcurrent == InitConcurrent /\ [][Next]_vars

\* No run starts more background tasks: one per settle invocation.
MaxTasks == Cardinality(Reqs) * MaxSettleInvocations

\* Every facilitator settle call a task awaits returns (the client answers
\* or raises) and every retry timer fires; nothing is assumed of the callers.
TasksProgress ==
    \A t \in 1..MaxTasks :
      WF_vars(BgSettleReturn(t)) /\ WF_vars(BgWaitReturn(t))

SpecFair == InitSettledOnce /\ [][Next]_vars /\ TasksProgress

\* ------------------------------------------------------------ claims
TaskIds == DOMAIN tasks
TasksOf(r) == {t \in TaskIds : tasks[t].ctx = r}

\* C1: within one request, in the HTTP plugin and in the tool wrapper alike,
\* the handler is invoked only after a facilitator verify call has answered
\* isValid=true, no facilitator settle call (direct or by a background task)
\* is initiated while the handler has not returned, and no settle call is
\* ever made for a context whose verification did not succeed.
C1_VerifyThenHandlerThenSettle ==
    \A r \in Reqs :
      adapter \in {"http", "tool"} =>
      /\ handlerCalls[r] > 0 => (verified[r] /\ verifyCalls[r] = 1
                                 /\ pc[r] # "verifying")
      /\ handlerDone[r] => handlerCalls[r] > 0
      /\ pc[r] = "handler" => (settleCalls[r] = 0 /\ TasksOf(r) = {})
      /\ (settleCalls[r] > 0 \/ TasksOf(r) # {} \/ settleInv[r] > 0)
            => (handlerDone[r] /\ verified[r])
      /\ ~verified[r] => (settleCalls[r] = 0 /\ TasksOf(r) = {})

C1_Witness ==
    \E r \in Reqs :
      /\ adapter = "tool"
      /\ pc[r] = "done"
      /\ verified[r] /\ handlerDone[r]
      /\ settleCalls[r] > 0

\* C2 (as claimed): every background task, once it has run to its end, has
\* invoked exactly one of onSettlementSuccess / onSettlementError, exactly
\* once; never more than one callback invocation in total; the success
\* callback belongs to the first successful attempt, the error callback to
\* a failed final attempt. For every maxRetries and every callback behaviour.
C2_ExactlyOneCallback ==
    \A t \in TaskIds :
      /\ tasks[t].succ + tasks[t].err <= 1
      /\ tasks[t].pc = "done" => tasks[t].succ + tasks[t].err = 1
      /\ tasks[t].err = 1 => (tasks[t].okAt = 0
                              /\ tasks[t].attempts = MaxRetriesOf(cfg))

\* C3 (as claimed): once an attempt of a task has returned success the task
\* has stopped: it is done, it has made no attempt beyond that one, and
\* onSettlementError has not been invoked.
C3_StopsAtFirstSuccess ==
    \A t \in TaskIds :
      tasks[t].okAt > 0 =>
        /\ tasks[t].pc = "done"
        /\ tasks[t].attempts = tasks[t].okAt
        /\ tasks[t].err = 0

\* C4: a background task makes at most maxRetries facilitator settle calls
\* (3 when unset) and its attempts are numbered 1, 2, ... in order; a task
\* that has ended without a successful attempt has made exactly maxRetries
\* attempts (none when maxRetries < 1) and, its attempts having all failed,
\* has invoked onSettlementError exactly once with the error of the last
\* attempt and onSettlementSuccess never; the error callback is invoked by
\* no task still running, and a task that has ended takes no further step.
C4_Inv ==
    \A t \in TaskIds :
      LET m == MaxRetriesOf(cfg)
          k == tasks[t]
      IN
      /\ k.attempts <= (IF m > 0 THEN m ELSE 0)
      /\ k.pc = "settle" => (k.attempt = k.attempts /\ k.attempt >= 1 /\ k.attempt <= m)
      /\ k.pc = "wait" => (k.attempt = k.attempts /\ k.attempt < m)
      /\ (k.pc = "done" /\ k.okAt = 0)
            => /\ k.attempts = (IF m > 0 THEN m ELSE 0)
               /\ k.succ = 0
               /\ k.attempts >= 1
                    => /\ k.err = 1
                       /\ k.errArg = k.lastError
                       /\ k.errArg \in {"Settlement failed", "fetch failed"}
      /\ k.err > 0 => k.pc = "done"
      /\ k.err <= 1

C4_BoundedAttempts ==
    /\ []C4_Inv
    /\ [][\A t \in TaskIds : tasks[t].pc = "done" => tasks'[t] = tasks[t]]_vars

C4_Witness ==
    \E t \in TaskIds :
      /\ tasks[t].pc = "done"
      /\ tasks[t].okAt = 0
      /\ tasks[t].attempts = 3
      /\ tasks[t].err = 1
      /\ Len(tasks[t].waits) = 2

\* C5 (as claimed): a task whose first successful attempt is attempt k has
\* observed exactly k-1 waits, the j-th being retryDelay * j (1000 ms when
\* unset), has invoked onSettlementSuccess once and onSettlementError never;
\* no wait follows a successful attempt or the final failed attempt.
C5_WaitsBeforeFirstSuccess ==
    \A t \in TaskIds :
      LET k == tasks[t] IN
      /\ \A j \in 1..Len(k.waits) : k.waits[j] = RetryDelayOf(cfg) * j
      /\ k.okAt > 0 => (Len(k.waits) = k.okAt - 1 /\ k.succ = 1 /\ k.err = 0)
      /\ (k.okAt = 0 /\ k.attempts >= 1) => Len(k.waits) <= k.attempts
      /\ (k.okAt = 0 /\ k.pc = "done" /\ k.attempts >= 1)
            => Len(k.waits) = k.attempts - 1

\* Whether the call that handed request r's context to settlement has
\* returned to its caller.
Returned(r) ==
    IF adapter = "tool"
    THEN result[r].kind = "returned"
    ELSE settleOut[r].kind \in {"returned", "raised"}

Marked(rsp) == rsp.headers[HdrStatus] # NoHeader

\* C6: with asyncSettlement.enabled, the step in which settlePaymentAsync
\* returns hands back the response it was given, its status unchanged, with
\* an X-Payment-Status header that decodes to {status: pending_settlement},
\* and at that moment the task it started has processed the outcome of no
\* attempt: no callback has fired, no wait has been observed, at most the
\* first facilitator call is in flight. Hence whenever a task has processed
\* an outcome, the call that started it has already returned.
C6_ReturnsBeforeAnyOutcome ==
    /\ [](\A t \in TaskIds :
            (\/ tasks[t].succ + tasks[t].err > 0
             \/ tasks[t].waits # <<>>
             \/ tasks[t].attempts > 1
             \/ (tasks[t].pc = "done" /\ tasks[t].attempts >= 1))
               => Returned(tasks[t].ctx))
    /\ [][\A r \in Reqs :
            (/\ Len(tasks') = Len(tasks) + 1
             /\ tasks'[Len(tasks')].ctx = r
             /\ resp'[r].writable)
            => LET new == tasks'[Len(tasks')]
                   hdr == resp'[r].headers[HdrStatus]
               IN
               /\ cfg.enabled
               /\ new.succ = 0 /\ new.err = 0 /\ new.okAt = 0
               /\ new.waits = <<>>
               /\ new.attempts <= 1
               /\ new.attempts = 1 => new.pc = "settle"
               /\ "b64" \in DOMAIN hdr
               /\ DecodeHeader(hdr) = [status |-> "pending_settlement"]
               /\ resp'[r].headers[HdrResponse] = NoHeader
               /\ resp'[r].headers[HdrError] = NoHeader
               /\ adapter = "http" =>
                    /\ resp'[r].status = resp[r].status
                    /\ settleOut'[r].kind = "returned"
                    /\ settleOut'[r].ok
                    /\ settleOut'[r].response = "same"]_vars

C6_Witness ==
    \E r \in Reqs :
      /\ cfg.enabled
      /\ Returned(r)
      /\ Marked(resp[r])
      /\ \E t \in TasksOf(r) : tasks[t].pc = "settle" /\ tasks[t].attempts = 1

\* C7: a response marked pending_settlement never changes again, and never
\* carries X-Payment-Response or X-Payment-Error; no step of a background
\* task (the end of an attempt, of a wait, a callback) changes any response.
C7_BackgroundLeavesResponse ==
    /\ [](\A r \in Reqs :
            Marked(resp[r]) =>
              /\ resp[r].headers[HdrResponse] = NoHeader
              /\ resp[r].headers[HdrError] = NoHeader)
    /\ [][\A r \in Reqs : Marked(resp[r]) => resp'[r] = resp[r]]_vars
    /\ [][(\E t \in TaskIds : tasks'[t] # tasks[t]) => resp' = resp]_vars

C7_Witness ==
    \E t \in TaskIds :
      /\ tasks[t].pc = "done"
      /\ tasks[t].succ = 1
      /\ resp[tasks[t].ctx].headers[HdrStatus] = PendingMarker

\* C8: a settle closure invoked with a response of status >= 400 returns
\* ok=true with that same response, no header added; no facilitator settle
\* call is made for the context, no background task is started (so no
\* callback fires), with async settlement enabled or not.
C8_ErrorStatusShortCircuits ==
    \A r \in Reqs :
      (adapter = "http" /\ resp[r].status >= ErrorStatusFloor) =>
        /\ settleCalls[r] = 0
        /\ TasksOf(r) = {}
        /\ resp[r].headers = NoHeaders
        /\ pc[r] = "responded"
        /\ settleInv[r] > 0 =>
             /\ settleOut[r].kind = "returned"
             /\ settleOut[r].ok
             /\ settleOut[r].response = "same"

C8_Witness ==
    \E r \in Reqs :
      /\ adapter = "http"
      /\ cfg.enabled
      /\ resp[r].status = 500
      /\ settleInv[r] > 0
      /\ settleOut[r].kind = "returned" /\ settleOut[r].ok

\* C9: a request without proof whose requirement builds is rejected with no
\* facilitator verify or settle call, no handler invocation and no
\* background task; the HTTP rejection has status 402 and its accepts list
\* holds exactly the one requirement the builder produced for the request.
C9_NoProofRejectedAtOnce ==
    \A r \in Reqs :
      (/\ adapter \in {"http", "tool"}
       /\ pc[r] \notin {"idle", "start"}
       /\ inp[r].proof = Undefined
       /\ Requirement(r).kind = "requirement") =>
        /\ pc[r] = "rejected"
        /\ gate[r].kind = "rejection"
        /\ verifyCalls[r] = 0 /\ settleCalls[r] = 0 /\ handlerCalls[r] = 0
        /\ TasksOf(r) = {}
        /\ ~verified[r]
        /\ adapter = "tool" => (result[r].kind = "returned" /\ result[r].isError)
        /\ adapter = "http" =>
             /\ gate[r].status = 402
             /\ Len(gate[r].body.accepts) = 1
             /\ gate[r].body.accepts[1] = Requirement(r)

C9_Witness ==
    \E r \in Reqs :
      /\ adapter = "http"
      /\ inp[r].proof = Undefined
      /\ pc[r] = "rejected"
      /\ gate[r].status = 402

Settled(r) == settlement[r].kind = "settled"

C14_DisabledIsSynchronous ==
    \A r \in Reqs :
      ~cfg.enabled =>
        /\ tasks = <<>>
        /\ adapter = "core" =>
             /\ settleCalls[r] = settleInv[r]
             /\ settleCalls[r] <= 1
             /\ resp[r].headers[HdrStatus] = NoHeader
             /\ pc[r] = "settling" =>
                  (settleOut[r].kind = "none" /\ resp[r].headers = NoHeaders)
             /\ settleOut[r].kind # "none" => (Settled(r) /\ settleCalls[r] = 1)
             /\ settleOut[r].kind = "returned" =>
                  LET res == settlement[r].result
                      ok == resp[r].headers[HdrResponse]
                      ko == resp[r].headers[HdrError]
                  IN
                  /\ settleOut[r].response = "same"
                  /\ IF res.success
                     THEN /\ "b64" \in DOMAIN ok
                          /\ DecodeHeader(ok) =
                               [success |-> "true",
                                transaction |-> res.transaction,
                                network |-> res.network, payer |-> res.payer]
                          /\ ko = NoHeader
                     ELSE /\ "b64" \in DOMAIN ko
                          /\ DecodeHeader(ko) =
                               (IF res.error = Undefined
                                THEN [success |-> "false"]
                                ELSE [success |-> "false", error |-> res.error])
                          /\ ok = NoHeader

C14_Witness ==
    \E r \in Reqs :
      /\ adapter = "core"
      /\ ~cfg.enabled
      /\ settleOut[r].kind = "returned"
      /\ Settled(r)
      /\ ~settlement[r].result.success
      /\ resp[r].headers[HdrError] # NoHeader

\* C15: an awaited settlePayment makes one facilitator settle call per
\* invocation and always answers with a SettlementResult: success false and
\* the error's message when the facilitator call raised, otherwise the
\* facilitator's success, transaction, network and payer.
C15_SettleOnceNeverRaises ==
    \A r \in Reqs :
      /\ ~cfg.enabled =>
           /\ settleCalls[r] <= (IF adapter = "tool" THEN 1 ELSE settleInv[r])
           /\ pc[r] = "settling" => settleCalls[r] >= 1
           /\ Settled(r) => settleCalls[r] >= 1
      /\ Settled(r) =>
           LET a == settlement[r].answer
               res == settlement[r].result
           IN
           /\ res.success \in BOOLEAN
           /\ a.kind = "raise" =>
                (~res.success /\ res.error = a.error /\ res.error # Undefined)
           /\ a.kind # "raise" =>
                /\ res.success = (a.kind = "success")
                /\ res.transaction = a.transaction
                /\ res.network = a.network
                /\ res.payer = a.payer

C15_Witness ==
    \E r \in Reqs :
      /\ Settled(r)
      /\ settlement[r].answer.kind = "raise"
      /\ ~settlement[r].result.success
      /\ settleCalls[r] = 1

\* Whether verifyPayment has been called for request r: its requirement was
\* built, and the adapter found a proof to hand over (a direct caller hands
\* over whatever it holds).
VerifyCalled(r) ==
    /\ pc[r] \notin {"idle", "start"}
    /\ Requirement(r).kind = "requirement"
    /\ adapter = "core" \/ ~ProofMissing(inp[r].proof)

\* Request r was turned away with this error code. The HTTP plugin's 402
\* body carries the error's message, not its code.
RejectedWith(r, code) ==
    /\ pc[r] = "rejected"
    /\ gate[r].kind = "rejection"
    /\ ~verified[r]
    /\ adapter = "http" => gate[r].status = PaymentRequiredStatus
    /\ adapter # "http" =>
         /\ gate[r].body.error.code = code
         /\ gate[r].body.requirements = <<Requirement(r)>>

\* C16: a proof token that does not decode makes verifyPayment answer
\* success=false with code INVALID_PAYMENT and the requirement in its
\* requirements list, with no facilitator call made: no verify call, no
\* settle call, no background task.
C16_UndecodableIsInvalidPayment ==
    \A r \in Reqs :
      (VerifyCalled(r) /\ ~Decodable(inp[r].proof)) =>
        /\ RejectedWith(r, "INVALID_PAYMENT")
        /\ adapter = "http" => gate[r].body.error = "Invalid payment"
        /\ verifyCalls[r] = 0
        /\ verification[r] = NoVerification
        /\ settleCalls[r] = 0
        /\ TasksOf(r) = {}

C16_Witness ==
    \E r \in Reqs :
      /\ adapter = "core"
      /\ inp[r].proof = "garbage"
      /\ pc[r] = "rejected"
      /\ gate[r].kind = "rejection"
      /\ gate[r].body.error.code = "INVALID_PAYMENT"

\* C17: verifyPayment calls the facilitator at most once and names the first
\* step that fails: INVALID_PAYMENT for a token that does not decode,
\* NO_MATCHING_REQUIREMENTS for a payload of another network (neither with
\* a facilitator call), VERIFICATION_FAILED with the facilitator's
\* invalidReason and payer when it answers isValid=false,
\* VERIFICATION_ERROR when the call raises; a context is handed out exactly
\* when decode, match and facilitator verification succeeded; the call
\* itself never raises.
C17_VerifyClassifies ==
    \A r \in Reqs :
      /\ verifyCalls[r] <= 1
      /\ gate[r].kind = "admission" =>
           /\ VerifyCalled(r)
           /\ Decodable(inp[r].proof)
           /\ gate[r].payment.network = gate[r].requirements.network
           /\ verification[r].kind = "valid"
      /\ VerifyCalled(r) =>
           LET tok == inp[r].proof
               a == verification[r]
           IN
           /\ pc[r] # "raised"
           /\ IF ~Decodable(tok)
              THEN /\ RejectedWith(r, "INVALID_PAYMENT")
                   /\ verifyCalls[r] = 0 /\ a = NoVerification
              ELSE IF DecodePayment(tok).network # Requirement(r).network
              THEN /\ RejectedWith(r, "NO_MATCHING_REQUIREMENTS")
                   /\ verifyCalls[r] = 0 /\ a = NoVerification
              ELSE /\ verifyCalls[r] = 1
                   /\ (pc[r] = "verifying") <=> (a = NoVerification)
                   /\ a.kind = "valid" =>
                        (gate[r].kind = "admission" /\ verified[r])
                   /\ a.kind = "raise" =>
                        RejectedWith(r, "VERIFICATION_ERROR")
                   /\ a.kind = "invalid" =>
                        LET reason == IF a.invalidReason # Undefined
                                      THEN a.invalidReason
                                      ELSE "Payment verification failed"
                        IN
                        /\ RejectedWith(r, "VERIFICATION_FAILED")
                        /\ adapter # "http" =>
                             /\ gate[r].body.error.message = reason
                             /\ gate[r].body.error.payer = a.payer
                        /\ adapter = "http" =>
                             /\ gate[r].body.error = reason
                             /\ a.payer # Undefined =>
                                  gate[r].body.payer = a.payer

C17_Witness ==
    \E r \in Reqs :
      /\ adapter = "tool"
      /\ verifyCalls[r] = 1
      /\ verification[r].kind = "invalid"
      /\ verification[r].invalidReason = "insufficient_funds"
      /\ pc[r] = "rejected"
      /\ gate[r].body.error.code = "VERIFICATION_FAILED"

\* What the call of createPaymentRequirements for request r came to, as its
\* caller shows it: the code of the PaymentFailure, "raised" when it left
\* through an exception, "none" when a requirement was built.
BuildFailureCode(r) ==
    CASE gate[r].kind = "raise" -> "raised"
      [] gate[r].kind = "failure" -> gate[r].body.error.code
      [] gate[r].kind = "rejection" /\ adapter = "http" ->
           IF "code" \in DOMAIN gate[r].body THEN gate[r].body.code ELSE "none"
      [] gate[r].kind = "rejection" /\ adapter = "tool" ->
           IF DOMAIN gate[r].body = {"success", "error"}
           THEN gate[r].body.error.code
           ELSE "none"
      [] OTHER -> "none"

\* C18 (as claimed): createPaymentRequirements answers a price that does
\* not convert with PRICE_PROCESSING_ERROR, and every configuration whose
\* network is outside the supported set with UNSUPPORTED_NETWORK.
C18_BuildFailureCodes ==
    \A r \in Reqs :
      pc[r] \notin {"idle", "start"} =>
        /\ AtomicAmountOf(inp[r].price) = Undefined =>
             BuildFailureCode(r) = "PRICE_PROCESSING_ERROR"
        /\ conf.network \notin SupportedEVMNetworks =>
             BuildFailureCode(r) = "UNSUPPORTED_NETWORK"

\* C19: when the requirement cannot be built, ensurePayment answers at once
\* with a rejection of status 500 whose body is x402Version 1, the error's
\* message and its code; no facilitator call is made, the handler is not
\* admitted, no settlement is started, with or without a proof. Only a
\* construction failure is answered with status 500.
C19_BuildFailureIsConfigError ==
    \A r \in Reqs :
      (adapter = "http" /\ pc[r] \notin {"idle", "start"}) =>
        /\ AtomicAmountOf(inp[r].price) = Undefined =>
             /\ pc[r] = "rejected"
             /\ gate[r].kind = "rejection"
             /\ gate[r].status = 500
             /\ gate[r].body = [x402Version |-> 1, error |-> "Invalid price",
                                code |-> "PRICE_PROCESSING_ERROR"]
             /\ verifyCalls[r] = 0 /\ verification[r] = NoVerification
             /\ handlerCalls[r] = 0
             /\ settleInv[r] = 0 /\ settleCalls[r] = 0
             /\ TasksOf(r) = {}
        /\ (gate[r].kind = "rejection" /\ gate[r].status = 500) =>
             /\ Requirement(r).kind = "failure"
             /\ gate[r].body.code \in {"PRICE_PROCESSING_ERROR",
                                       "UNSUPPORTED_NETWORK"}

C19_Witness ==
    \E r \in Reqs :
      /\ adapter = "http"
      /\ inp[r].price = "abc"
      /\ inp[r].proof = "tok-base"
      /\ pc[r] = "rejected"
      /\ gate[r].status = 500

\* The requirement ensurePayment showed for request r, when it showed one:
\* the one in the accepts list of a 402 rejection, or the one of the admission.
ShownRequirements(r) ==
    CASE gate[r].kind = "admission" -> {gate[r].requirements}
      [] gate[r].kind = "rejection" /\ gate[r].status = PaymentRequiredStatus
           -> {gate[r].body.accepts[i] : i \in 1..Len(gate[r].body.accepts)}
      [] OTHER -> {}

\* C20 (as claimed): every ensurePayment call with a well-formed price comes
\* to a requirement, and the requirement it advertises and verifies against
\* has the payTo and the network of the configuration the call was given.
C20_RequirementFollowsCallConfig ==
    \A r \in Reqs :
      (/\ adapter = "http"
       /\ pc[r] \notin {"idle", "start"}
       /\ AtomicAmountOf(inp[r].price) # Undefined) =>
        /\ pc[r] # "raised"
        /\ \A c \in EnsurePaymentConfigs(r) :
             \A q \in ShownRequirements(r) :
               /\ q.payTo = ChecksumAddress(c.payTo)
               /\ q.network = c.network

\* The requirements the builder produced for request r, as its caller shows
\* them: the one of an admission, the accepts list of a payment-required
\* body, the requirements list of a PaymentResult.
BuiltRequirements(r) ==
    CASE gate[r].kind = "admission" -> {gate[r].requirements}
      [] gate[r].kind = "rejection" /\ "accepts" \in DOMAIN gate[r].body ->
           {gate[r].body.accepts[i] : i \in 1..Len(gate[r].body.accepts)}
      [] gate[r].kind = "rejection" /\ "requirements" \in DOMAIN gate[r].body ->
           {gate[r].body.requirements[i] :
              i \in 1..Len(gate[r].body.requirements)}
      [] OTHER -> {}

\* C21: on a processor configured with a supported network and a valid
\* recipient, createPaymentRequirements with a price that converts neither
\* raises nor answers a failure: it returns a requirement with scheme
\* "exact", the configured network, payTo the recipient in checksummed
\* form, and as resource the explicit resource when one was passed, the
\* request's URL otherwise.
C21_RequirementFromConfig ==
    \A r \in Reqs :
      (/\ pc[r] \notin {"idle", "start"}
       /\ conf.network \in SupportedEVMNetworks
       /\ IsAddress(conf.recipient)
       /\ AtomicAmountOf(inp[r].price) # Undefined) =>
        /\ pc[r] # "raised"
        /\ gate[r].kind \notin {"raise", "failure"}
        /\ BuildFailureCode(r) = "none"
        /\ gate[r] # NoGate => BuiltRequirements(r) # {}
        /\ \A q \in BuiltRequirements(r) :
             /\ q.kind = "requirement"
             /\ q.scheme = "exact"
             /\ q.network = conf.network
             /\ q.payTo = ChecksumAddress(conf.recipient)
             /\ q.maxAmountRequired = AtomicAmountOf(inp[r].price)
             /\ q.resource = (IF ResourceArg # Undefined
                              THEN ResourceArg ELSE RequestUrl)

C21_Witness ==
    \E r \in Reqs :
      /\ adapter = "http"
      /\ gate[r].kind = "admission"
      /\ gate[r].requirements.resource = "http://api/paid"
      /\ gate[r].requirements.payTo = "0xPayee"
      /\ gate[r].requirements.network = "base"

\* C22 (as claimed): every rejection of a missing, undecodable, unmatched or
\* unverified proof, from ensurePayment, from the settle closure and from
\* the paid tool wrapper alike, has a body with x402Version 1, an error and
\* an accepts list that holds the requirement of the request; the tool
\* wrapper hands that body back in an error-flagged result.
C22_RejectionsAreVersioned ==
    \A r \in Reqs :
      /\ (/\ adapter \in {"http", "tool"}
          /\ gate[r].kind = "rejection"
          /\ Requirement(r).kind = "requirement") =>
           /\ {"x402Version", "error", "accepts"} \subseteq DOMAIN gate[r].body
           /\ gate[r].body.x402Version = X402_VERSION
           /\ \E i \in 1..Len(gate[r].body.accepts) :
                gate[r].body.accepts[i] = Requirement(r)
           /\ adapter = "tool" =>
                (result[r].kind = "returned" /\ result[r].isError)
      /\ (/\ adapter = "http"
          /\ settleOut[r].kind = "returned"
          /\ ~settleOut[r].ok) =>
           /\ settleOut[r].body.x402Version = X402_VERSION
           /\ settleOut[r].body.accepts = <<Requirement(r)>>

\* All that the handling of request q holds: its position, what the gate and
\* the closure returned, its response and result, its calls so far.
RequestState(q) ==
    <<pc[q], gate[q], verifyCalls[q], verified[q], verification[q],
      handlerCalls[q], handlerDone[q], resp[q], settleInv[q], settleCalls[q],
      settleLog[q], settleOut[q], settlement[q], result[q]>>

\* The background tasks of request q, in the order started.
TaskStatesOf(q) == SelectSeq(tasks, LAMBDA k : k.ctx = q)

\* The context of request q as its own admission made it.
OwnContext(q) ==
    [payment |-> DecodePayment(inp[q].proof), requirements |-> Requirement(q)]

C23_OwnContextOnly ==
    \A r \in Reqs :
      /\ Len(settleLog[r]) = settleCalls[r]
      /\ \A i \in 1..Len(settleLog[r]) : settleLog[r][i] = OwnContext(r)
      /\ \A t \in TasksOf(r) : tasks[t].context = OwnContext(r)
      /\ Cardinality(TasksOf(r)) <= (IF adapter = "tool" THEN 1 ELSE settleInv[r])
      /\ cfg.enabled =>
           Cardinality(TasksOf(r)) = (IF adapter = "tool"
                                     THEN (IF result[r].kind = "returned"
                                              /\ ~result[r].isError
                                           THEN 1 ELSE 0)
                                     ELSE IF adapter = "http"
                                             /\ settleInv[r] > 0
                                             /\ IsErrorStatus(resp[r].status)
                                          THEN 0
                                          ELSE settleInv[r])

\* C23: with several requests in flight on one gatekeeper, every facilitator
\* settle call made for a request carries that request's own proof and
\* requirement, and so does every background task; a settle invocation
\* starts at most one task for its context; a step of one task (the end of
\* an attempt or of a wait, a callback) changes the attempt counter, the
\* waits and the callback record of no other task, and each task keeps the
\* bounds it has when running alone; every step changes the state of one
\* request only and no step writes the instance's configuration.
C23_IndependentSettlements ==
    /\ [](C23_OwnContextOnly /\ C4_Inv)
    /\ [][\A t \in TaskIds : \A u \in TaskIds :
            (t # u /\ tasks'[t] # tasks[t]) => tasks'[u] = tasks[u]]_vars
    /\ [][/\ cfg' = cfg /\ conf' = conf /\ adapter' = adapter
          /\ \E r \in Reqs : \A q \in Reqs \ {r} :
                /\ RequestState(q)' = RequestState(q)
                /\ TaskStatesOf(q)' = TaskStatesOf(q)]_vars

\* Both requests have a background task, each with its own context, the
\* first in its second attempt after a wait while the second has ended.
C23_Witness ==
    \E t \in TaskIds : \E u \in TaskIds :
      /\ tasks[t].ctx = 1 /\ tasks[u].ctx = 2
      /\ tasks[t].context # tasks[u].context
      /\ tasks[t].pc = "settle" /\ tasks[t].attempts = 2
      /\ tasks[u].pc = "done" /\ tasks[u].succ = 1
      /\ u < t

\* The ends settlePaymentInBackground has: after a successful attempt, or
\* after as many attempts as maxRetries allows (none when it is below 1).
Terminal(k) ==
    /\ k.pc = "done"
    /\ \/ k.okAt > 0
       \/ k.attempts = (IF MaxRetriesOf(cfg) > 0 THEN MaxRetriesOf(cfg) ELSE 0)

\* C24: provided every facilitator settle call and every wait of a task
\* returns, a background task once started reaches its end, after a
\* successful attempt or after maxRetries attempts, whatever its caller
\* does or fails to do; and no step removes a task, hands it to another
\* context or takes it back: a task only moves forward.
C24_TaskRunsToCompletion ==
    /\ \A t \in 1..MaxTasks :
         (t \in TaskIds) ~> (t \in TaskIds /\ Terminal(tasks[t]))
    /\ [](\A t \in TaskIds : tasks[t].pc \in {"settle", "wait", "done"})
    /\ [](\A t \in TaskIds : tasks[t].pc = "done" => Terminal(tasks[t]))
    /\ [][\A t \in TaskIds :
            /\ t \in DOMAIN tasks'
            /\ tasks'[t].ctx = tasks[t].ctx
            /\ tasks'[t].context = tasks[t].context
            /\ tasks'[t].attempts >= tasks[t].attempts
            /\ tasks[t].pc = "done" => tasks'[t] = tasks[t]]_vars

\* A task that came to its end by exhausting its attempts after its caller
\* had its answer.
C24_Witness ==
    \E t \in TaskIds :
      /\ Terminal(tasks[t])
      /\ tasks[t].okAt = 0
      /\ tasks[t].attempts = 3
      /\ pc[tasks[t].ctx] \in {"done", "responded"}

\* C25: a tool result that is not error-flagged carries x402/payment-status
\* = pending_settlement exactly when async settlement is enabled, and
\* x402/payment-response, with success true and the settlement's
\* transaction, network and payer, exactly when the settlement was awaited
\* and succeeded; never both; an error-flagged result (a rejection, a failed
\* tool) carries neither.
C25_ToolResultMetadata ==
    \A r \in Reqs :
      (adapter = "tool" /\ result[r].kind = "returned") =>
        LET res == result[r] IN
        /\ ~(res.metaStatus # Undefined /\ res.metaResponse # NoMeta)
        /\ res.isError => (res.metaStatus = Undefined /\ res.metaResponse = NoMeta)
        /\ pc[r] = "rejected" => res.isError
        /\ ~res.isError =>
             /\ (res.metaStatus = "pending_settlement") <=> cfg.enabled
             /\ res.metaStatus \in {Undefined, "pending_settlement"}
             /\ (res.metaResponse # NoMeta) <=>
                  (~cfg.enabled /\ Settled(r) /\ settlement[r].result.success)
             /\ res.metaResponse # NoMeta =>
                  res.metaResponse =
                    [success |-> "true",
                     transaction |-> settlement[r].answer.transaction,
                     network |-> settlement[r].answer.network,
                     payer |-> settlement[r].answer.payer]

C25_Witness ==
    \E r \in Reqs :
      /\ adapter = "tool"
      /\ ~cfg.enabled
      /\ result[r].kind = "returned" /\ ~result[r].isError
      /\ result[r].metaResponse # NoMeta
      /\ result[r].metaResponse.transaction = "0xabc"

\* C27: in the tool wrapper the tool callback is invoked at most once per
\* request and only after the facilitator verified the proof; when it
\* raised or returned a result flagged isError, the caller has an
\* error-flagged result without payment metadata and no facilitator settle
\* call, awaited or by a background task, is ever made for the request.
C27_FailedToolNotBilled ==
    \A r \in Reqs :
      adapter = "tool" =>
        /\ handlerCalls[r] <= 1
        /\ handlerCalls[r] > 0 =>
             (verified[r] /\ verification[r].kind = "valid")
        /\ (handlerDone[r] /\ result[r].kind = "returned" /\ result[r].isError) =>
             /\ pc[r] = "done"
             /\ settleCalls[r] = 0 /\ settleLog[r] = <<>>
             /\ TasksOf(r) = {}
             /\ ~Settled(r)
             /\ result[r].metaStatus = Undefined
             /\ result[r].metaResponse = NoMeta
        /\ (settleCalls[r] > 0 \/ TasksOf(r) # {}) =>
             /\ handlerDone[r]
             /\ result[r].kind = "returned" => ~result[r].isError

C27_Witness ==
    \E r \in Reqs :
      /\ adapter = "tool"
      /\ cfg.enabled
      /\ verified[r] /\ handlerCalls[r] = 1 /\ handlerDone[r]
      /\ result[r].kind = "returned" /\ result[r].isError
      /\ settleCalls[r] = 0

\* The part of the state machine of a PaymentContext that concerns entry,
\* attempt numbering and failure: settlement is entered from a verified
\* context only; a task that is settling is in attempt 1..maxRetries, the
\* number of facilitator calls it has made; onSettlementError belongs to
\* attempt maxRetries and ends the task.
C26_Numbering ==
    /\ \A r \in Reqs :
         (settleCalls[r] > 0 \/ Settled(r) \/ TasksOf(r) # {}) => verified[r]
    /\ \A t \in TaskIds :
         LET k == tasks[t]
             m == MaxRetriesOf(cfg)
         IN
         /\ k.attempts >= 1 => (k.attempt >= 1 /\ k.attempt <= m)
         /\ k.pc \in {"settle", "wait"} => k.attempt = k.attempts
         /\ k.pc = "settle" /\ k.waits = <<>> => k.attempt = 1
         /\ Len(k.waits) <= k.attempts
         /\ k.err > 0 => (k.attempt = m /\ k.pc = "done")

\* C26 (as claimed): each context moves UNVERIFIED -> VERIFIED -> SETTLED, or
\* VERIFIED -> SETTLING(1) -> ... -> SETTLING(k) -> SETTLED or
\* SETTLEMENT_FAILED, with the numbering above, and SETTLED is terminal: a
\* task with a successful attempt has ended, has made no attempt after it
\* and has not failed.
C26_ContextStateMachine ==
    /\ C26_Numbering
    /\ \A t \in TaskIds :
         tasks[t].okAt > 0 =>
           /\ tasks[t].pc = "done"
           /\ tasks[t].attempt = tasks[t].okAt
           /\ tasks[t].err = 0

\* C28 (as claimed): in the tool wrapper without async settlement, when the
\* awaited settlement of a verified payment failed (success false, or the
\* facilitator call raised) the caller's result is error-flagged, and a
\* result that is not error-flagged is handed back only after a settlement
\* that succeeded.
C28_ToolSyncFailureSurfaced ==
    \A r \in Reqs :
      (adapter = "tool" /\ ~cfg.enabled /\ result[r].kind = "returned") =>
        /\ (Settled(r) /\ ~settlement[r].result.success) => result[r].isError
        /\ ~result[r].isError => (Settled(r) /\ settlement[r].result.success)

ToldPending(r) ==
    \/ Marked(resp[r])
    \/ (result[r].kind = "returned"
        /\ result[r].metaStatus = "pending_settlement")

\* C30 (as claimed): with async settlement enabled, for every maxRetries,
\* once the tasks of a request that was told pending_settlement have run to
\* their end, a facilitator settle attempt has been made for its context
\* and a callback has been invoked.
C30_PendingIsFollowedUp ==
    \A r \in Reqs :
      (/\ cfg.enabled
       /\ ToldPending(r)
       /\ \A t \in TasksOf(r) : tasks[t].pc = "done") =>
        /\ settleCalls[r] >= 1
        /\ \E t \in TasksOf(r) :
             tasks[t].attempts >= 1 /\ tasks[t].succ + tasks[t].err >= 1

\* C31: the settle closure keeps no record of having run. Without async
\* settlement every invocation with a response of status < 400 makes one
\* facilitator settle call, with the proof and the requirement of the
\* admission: after n invocations n calls have been made, after one, one;
\* with a status >= 400 none is made.
C31_OneCallPerInvocation ==
    \A r \in Reqs :
      (adapter = "http" /\ ~cfg.enabled /\ settleInv[r] > 0) =>
        /\ gate[r].kind = "admission"
        /\ settleCalls[r] = (IF IsErrorStatus(resp[r].status)
                             THEN 0 ELSE settleInv[r])
        /\ Len(settleLog[r]) = settleCalls[r]
        /\ \A i \in 1..Len(settleLog[r]) :
             /\ settleLog[r][i].payment = gate[r].payment
             /\ settleLog[r][i].requirements = gate[r].requirements
             /\ settleLog[r][i] = OwnContext(r)
        /\ TasksOf(r) = {}

\* The closure of one admission invoked twice, both settlements answered.
C31_Witness ==
    \E r \in Reqs :
      /\ adapter = "http" /\ ~cfg.enabled
      /\ resp[r].status = 200
      /\ settleInv[r] = 2 /\ settleCalls[r] = 2
      /\ pc[r] = "responded" /\ Settled(r)
====
